---- MODULE Spec2Model ----
(***************************************************************************)
(* Semi-global alignment with affine gaps and soft clipping:               *)
(* SemiglobalAlign::compute of src/src/semiglobal.rs as a state machine.   *)
(* One behaviour is one call of compute(s, t, scoring): the matrices are   *)
(* allocated (Init), initialised on their boundary, filled cell by cell in *)
(* row-major order, scanned along the last column, and traced back one     *)
(* move at a time; the start of s_range is computed and the path reversed. *)
(***************************************************************************)
EXTENDS Integers, Sequences, FiniteSets

VARIABLES
    s, t, scoring,          \* the inputs of compute
    S, M, I, D,             \* score_matrix, match_matrix, insert_matrix, delete_matrix
    c,                      \* clip_lengths
    score, s_range, t_range, moves,
    prefix_clip_length, suffix_clip_length,
    i, j,                   \* the loop indices of the fill, then the traceback cursor
    last,                   \* the traceback's current move
    pc                      \* where compute is

vars == <<s, t, scoring, S, M, I, D, c, score, s_range, t_range, moves,
          prefix_clip_length, suffix_clip_length, i, j, last, pc>>

(***************************************************************************)
(* Bounds of the model and the inputs compute is called with.              *)
(***************************************************************************)
MaxLen == 3

Alphabet == {"A", "G"}

SeqsUpTo(n) == UNION {[1..k -> Alphabet] : k \in 0..n}

Policy(gi, gu, ma, mi, sc) ==
    [gap_inititation_score |-> gi, gap_unit_score |-> gu, match_score |-> ma,
     mismatch_score |-> mi, soft_clipping_score |-> sc]

\* The policies of the repository's tests, and policies that make ties, clips
\* and positive gap scores (accepted, not validated) happen on short inputs.
TestPolicy == Policy(-5, -1, 1, -3, -100)
ClipPolicy == Policy(-5, -1, 2, -2, -5)

Policies ==
    {TestPolicy, ClipPolicy,
     Policy(-1, -1, 2, -1, -1),
     Policy(0, -1, 1, -1, -2),
     Policy(0, 0, 1, -1, -50),
     Policy(-1, -1, 1, -1, -8),
     Policy(1, -1, 1, -1, -3),
     Policy(3, -1, 1, 0, 1),
     Policy(0, 1, 3, -1, 1),
     Policy(0, 1, 3, -1, 2)}

SuffixClipS == <<"C", "G", "T", "T", "T", "T">>
SuffixClipT == <<"G", "A", "A", "A", "A">>

Scenarios ==
    {<<SuffixClipS, SuffixClipT, ClipPolicy>>,
     <<<<"T", "T", "T", "T">>, <<"A", "A", "A", "A">>, TestPolicy>>,
     <<<<"G", "G", "T", "A", "G", "G", "G">>, <<"G", "G", "G", "G", "G">>, TestPolicy>>,
     <<<<"A", "G", "G", "T", "A", "G", "G", "G", "A">>, <<"G", "G", "G", "G", "G">>,
       TestPolicy>>,
     <<<<"A", "T", "A", "G">>, <<"G", "G", "G", "G", "G", "G", "A", "T", "G">>,
       Policy(-5, -1, 1, -1, -5)>>}

Inputs ==
    {<<a, b, p>> : a \in SeqsUpTo(MaxLen), b \in SeqsUpTo(MaxLen), p \in Policies}
        \cup Scenarios

(***************************************************************************)
(* Moves and cells.                                                        *)
(***************************************************************************)
NEGATIVE_INF == -1073741824

Moves == {"MATCH", "SUBS", "INSERT", "DELETE", "PREFIX_CLIP", "SUFFIX_CLIP", "NONE"}

\* The derived Ord of the enum: the declaration order of its variants.
MoveRank(mv) ==
    CASE mv = "MATCH" -> 0
      [] mv = "SUBS" -> 1
      [] mv = "INSERT" -> 2
      [] mv = "DELETE" -> 3
      [] mv = "PREFIX_CLIP" -> 4
      [] mv = "SUFFIX_CLIP" -> 5
      [] mv = "NONE" -> 6

Cell(sc, mv) == [score |-> sc, mov |-> mv]

\* The derived Ord of Cell: by score, then by mov.
CellGreater(a, b) ==
    \/ a.score > b.score
    \/ a.score = b.score /\ MoveRank(a.mov) > MoveRank(b.mov)

\* A maximum that keeps its first argument on equal scores.
CellMaxFirstOnTie(a, b) == IF a.score >= b.score THEN a ELSE b

\* std::cmp::max on cells: the second argument unless the first is greater.
CellMax(a, b) == IF CellGreater(a, b) THEN a ELSE b

gi == scoring.gap_inititation_score
gu == scoring.gap_unit_score
sc == scoring.soft_clipping_score

m == Len(s) + 1
n == Len(t) + 1

(***************************************************************************)
(* SemiglobalAlign::new, and the entry of compute.                         *)
(***************************************************************************)
NewMatrix(rows, cols) ==
    [ii \in 0..(rows - 1) |-> [jj \in 0..(cols - 1) |-> Cell(NEGATIVE_INF, "NONE")]]

Init ==
    \E inp \in Inputs :
        /\ s = inp[1]
        /\ t = inp[2]
        /\ scoring = inp[3]
        /\ S = NewMatrix(Len(inp[1]) + 1, Len(inp[2]) + 1)
        /\ M = NewMatrix(Len(inp[1]) + 1, Len(inp[2]) + 1)
        /\ I = NewMatrix(Len(inp[1]) + 1, Len(inp[2]) + 1)
        /\ D = NewMatrix(Len(inp[1]) + 1, Len(inp[2]) + 1)
        /\ c = [ii \in 0..Len(inp[1]) |-> 0]
        /\ score = NEGATIVE_INF
        /\ s_range = <<-1, -1>>
        /\ t_range = <<-1, -1>>
        /\ moves = <<>>
        /\ prefix_clip_length = 0
        /\ suffix_clip_length = 0
        /\ i = 0
        /\ j = 0
        /\ last = "NONE"
        /\ pc = "init"

(***************************************************************************)
(* Boundary initialisation: cell (0,0), column 0, row 0.                   *)
(***************************************************************************)
\* Column 0 charged as a gap run of ii reference symbols.
ColumnZeroInsertRun(ii) == Cell(gi + gu * ii, "NONE")

ColumnZeroInsert(ii) == Cell(gi + gu, "NONE")

ColumnZeroScore(ii) == Cell(0, "NONE")

RowZeroDelete(jj) == Cell(gi + gu * jj, IF jj = 1 THEN "NONE" ELSE "DELETE")

RowZeroScore(jj) ==
    CellMax(Cell(RowZeroDelete(jj).score, "DELETE"),
            Cell(scoring.soft_clipping_score, "PREFIX_CLIP"))

InitMatrices ==
    /\ pc = "init"
    /\ M' = [ii \in 0..(m - 1) |-> [jj \in 0..(n - 1) |->
                IF jj = 0 THEN Cell(0, "NONE") ELSE
                IF ii = 0 THEN Cell(NEGATIVE_INF, "NONE") ELSE M[ii][jj]]]
    /\ I' = [ii \in 0..(m - 1) |-> [jj \in 0..(n - 1) |->
                IF ii = 0 THEN Cell(NEGATIVE_INF, "NONE") ELSE
                IF jj = 0 THEN ColumnZeroInsert(ii) ELSE I[ii][jj]]]
    /\ D' = [ii \in 0..(m - 1) |-> [jj \in 0..(n - 1) |->
                IF jj = 0 THEN Cell(NEGATIVE_INF, "NONE") ELSE
                IF ii = 0 THEN RowZeroDelete(jj) ELSE D[ii][jj]]]
    /\ S' = [ii \in 0..(m - 1) |-> [jj \in 0..(n - 1) |->
                IF jj = 0 THEN (IF ii = 0 THEN Cell(0, "NONE") ELSE ColumnZeroScore(ii)) ELSE
                IF ii = 0 THEN RowZeroScore(jj) ELSE S[ii][jj]]]
    /\ i' = 1
    /\ j' = 1
    /\ pc' = "fill"
    /\ UNCHANGED <<s, t, scoring, c, score, s_range, t_range, moves,
                   prefix_clip_length, suffix_clip_length, last>>

(***************************************************************************)
(* The forward fill: one cell (i, j) of the nested loops per step.         *)
(***************************************************************************)
InsertCell(ii, jj) ==
    CellMax(Cell(I[ii - 1][jj].score + gu, "INSERT"),
            Cell(S[ii - 1][jj].score + gi + gu, S[ii - 1][jj].mov))

\* A deletion that pays the initiation at every position (no stay-open candidate).
DeleteCellAlwaysOpens(ii, jj) ==
    Cell(S[ii][jj - 1].score + gi + gu, S[ii][jj - 1].mov)

DeleteCell(ii, jj) ==
    CellMax(Cell(D[ii][jj - 1].score + gu, "DELETE"),
            Cell(S[ii][jj - 1].score + gi + gu, S[ii][jj - 1].mov))

MatchCell(ii, jj) ==
    IF s[ii] = t[jj]
    THEN Cell(S[ii - 1][jj - 1].score + scoring.match_score, S[ii - 1][jj - 1].mov)
    ELSE Cell(S[ii - 1][jj - 1].score + scoring.mismatch_score, S[ii - 1][jj - 1].mov)

\* The four-way maximum with a prefix clip that costs nothing.
BestOfFourFreeClip(ins, del, mat, ii, jj) ==
    CellMax(CellMax(Cell(ins.score, "INSERT"), Cell(del.score, "DELETE")),
            CellMax(Cell(mat.score, IF s[ii] = t[jj] THEN "MATCH" ELSE "SUBS"),
                    Cell(0, "PREFIX_CLIP")))

\* The four-way maximum of lines 176-177 and 183-184, over the cells just computed.
BestOfFour(ins, del, mat, ii, jj) ==
    CellMax(CellMax(Cell(ins.score, "INSERT"), Cell(del.score, "DELETE")),
            CellMax(Cell(mat.score, IF s[ii] = t[jj] THEN "MATCH" ELSE "SUBS"),
                    Cell(scoring.soft_clipping_score, "PREFIX_CLIP")))

\* The last column's candidate also replacing an equal score.
FinalColumnWinsOnTie(temp_max, cur) == temp_max.score >= cur.score

\* Whether the last column's own candidate replaces what the row has collected there.
FinalColumnWins(temp_max, cur) == temp_max.score > cur.score

\* A fill without suffix clipping.
SuffixClipNever(cand, cur) == FALSE

\* Whether a suffix clip after column jj replaces what the row has collected.
SuffixClipWins(cand, cur) == cand > cur.score

\* The clip length of the row when the last column's own candidate wins.
FinalColumnClipKept(ii) == c[ii]

FinalColumnClip(ii) == 0

\* The clip length counted from column jj itself.
ClipLengthOffByOne(jj) == n - jj

\* The clip length counted from the column after jj.
ClipLengthShort(jj) == n - 2 - jj

\* The number of query symbols a suffix clip after column jj absorbs, as recorded.
ClipLength(jj) == n - 1 - jj

FillCell ==
    /\ pc = "fill"
    /\ i < m
    /\ j < n
    /\ LET ins == InsertCell(i, j)
           del == DeleteCell(i, j)
           mat == MatchCell(i, j)
           best == BestOfFour(ins, del, mat, i, j)
           clipped == best.score + scoring.soft_clipping_score
       IN  /\ I' = [I EXCEPT ![i][j] = ins]
           /\ D' = [D EXCEPT ![i][j] = del]
           /\ M' = [M EXCEPT ![i][j] = mat]
           /\ IF j = n - 1
              THEN IF FinalColumnWins(best, S[i][n - 1])
                   THEN /\ c' = [c EXCEPT ![i] = FinalColumnClip(i)]
                        /\ S' = [S EXCEPT ![i][n - 1] = best]
                   ELSE UNCHANGED <<c, S>>
              ELSE IF SuffixClipWins(clipped, S[i][n - 1])
                   THEN /\ c' = [c EXCEPT ![i] = ClipLength(j)]
                        /\ S' = [S EXCEPT ![i][j] = best,
                                          ![i][n - 1] = Cell(clipped, "SUFFIX_CLIP")]
                   ELSE /\ c' = c
                        /\ S' = [S EXCEPT ![i][j] = best]
    /\ IF j + 1 < n
       THEN i' = i /\ j' = j + 1
       ELSE i' = i + 1 /\ j' = 1
    /\ UNCHANGED <<s, t, scoring, score, s_range, t_range, moves,
                   prefix_clip_length, suffix_clip_length, last, pc>>

(***************************************************************************)
(* The scan of the last column, and the start of the traceback.            *)
(***************************************************************************)
\* for i in 0..m: the running best <<score, row>> from row k on.
RECURSIVE ScanFrom(_, _)
ScanFrom(k, acc) ==
    IF k >= m THEN acc
    ELSE ScanFrom(k + 1, IF S[k][n - 1].score > acc[1]
                         THEN <<S[k][n - 1].score, k>> ELSE acc)

BestCell == ScanFrom(0, <<NEGATIVE_INF, -1>>)

StartTraceback ==
    /\ pc = "fill"
    /\ i >= m \/ n = 1
    /\ t_range' = <<0, n - 1>>
    /\ score' = BestCell[1]
    /\ s_range' = <<s_range[1], BestCell[2]>>
    /\ IF BestCell[2] < 0
       THEN \* c[-1 as usize]: index out of bounds
            /\ pc' = "panic"
            /\ UNCHANGED <<suffix_clip_length, i, j, moves, last>>
       ELSE /\ suffix_clip_length' = c[BestCell[2]]
            /\ i' = BestCell[2]
            /\ j' = n - 1
            /\ moves' = <<S[BestCell[2]][n - 1].mov>>
            /\ last' = S[BestCell[2]][n - 1].mov
            /\ pc' = "trace"
    /\ UNCHANGED <<s, t, scoring, S, M, I, D, c, prefix_clip_length>>

(***************************************************************************)
(* The traceback: one iteration of the loop per step.  moves is the path   *)
(* as pushed, newest last, until the final step reverses it.               *)
(***************************************************************************)
\* The move read for the state `last` at the cursor: None when the loop breaks.
NextMove ==
    CASE last \in {"MATCH", "SUBS"} -> M[i][j].mov
      [] last = "INSERT" -> I[i][j].mov
      [] last = "DELETE" -> D[i][j].mov
      [] last = "SUFFIX_CLIP" -> S[i][j - suffix_clip_length].mov
      [] OTHER -> "NONE"

NextI == IF last \in {"MATCH", "SUBS", "INSERT"} THEN i - 1 ELSE i

NextJ ==
    CASE last \in {"MATCH", "SUBS", "DELETE"} -> j - 1
      [] last = "SUFFIX_CLIP" -> j - suffix_clip_length
      [] OTHER -> j

\* The guard on Len(moves) keeps the path finite in the model: a loop that
\* never breaks pushes until memory runs out.  An index that would go below
\* zero is the panic of a usize subtraction (a build without overflow checks
\* wraps instead, and panics at the next matrix access).
TraceStep ==
    /\ pc = "trace"
    /\ Len(moves) <= Len(s) + Len(t) + 2
    /\ IF NextI < 0 \/ NextJ < 0
       THEN \* usize underflow: attempt to subtract with overflow
            /\ pc' = "panic"
            /\ UNCHANGED <<i, j, moves, last, prefix_clip_length>>
       ELSE IF last = "PREFIX_CLIP"
       THEN /\ prefix_clip_length' = j
            /\ pc' = "range"
            /\ UNCHANGED <<i, j, moves, last>>
       ELSE IF last = "NONE"
       THEN /\ pc' = "range"
            /\ UNCHANGED <<i, j, moves, last, prefix_clip_length>>
       ELSE /\ i' = NextI
            /\ j' = NextJ
            /\ IF NextMove = "NONE"
               THEN /\ pc' = "range"
                    /\ UNCHANGED <<moves, last>>
               ELSE /\ moves' = Append(moves, NextMove)
                    /\ last' = NextMove
                    /\ pc' = "trace"
            /\ UNCHANGED prefix_clip_length
    /\ UNCHANGED <<s, t, scoring, S, M, I, D, c, score, s_range, t_range,
                   suffix_clip_length>>

(***************************************************************************)
(* The start of s_range, and the reversal of the path.                     *)
(***************************************************************************)
\* INSERT left out of the moves that consume a reference symbol.
ConsumesReferenceNoInsert == {"MATCH", "SUBS"}

ConsumesReference == {"MATCH", "SUBS", "INSERT"}

CountMoves(P, kinds) == Cardinality({k \in 1..Len(P) : P[k] \in kinds})

Reverse(P) == [k \in 1..Len(P) |-> P[Len(P) + 1 - k]]

Max2(a, b) == IF a >= b THEN a ELSE b

ComputeRange ==
    /\ pc = "range"
    /\ IF \E k \in 1..Len(moves) : moves[k] = "NONE"
       THEN \* panic!("P cannot be NONE. There is a terrible mistake.")
            /\ pc' = "panic"
            /\ UNCHANGED <<s_range, moves>>
       ELSE /\ s_range' = <<Max2(s_range[2], 0) - CountMoves(moves, ConsumesReference),
                            s_range[2]>>
            /\ moves' = Reverse(moves)
            /\ pc' = "done"
    /\ UNCHANGED <<s, t, scoring, S, M, I, D, c, score, t_range,
                   prefix_clip_length, suffix_clip_length, i, j, last>>

Next == InitMatrices \/ FillCell \/ StartTraceback \/ TraceStep \/ ComputeRange

Spec == Init /\ [][Next]_vars

(***************************************************************************)
(* Helpers of the properties.                                              *)
(***************************************************************************)
NonEmpty == Len(s) > 0 /\ Len(t) > 0

Returned == pc = "done"

MaxOf(set) == CHOOSE v \in set : \A w \in set : w <= v

\* The cost of one more gapped position of kind `kind` after the move `prev`.
GapStep(kind, prev) == IF prev = kind THEN gu ELSE gi + gu

\* The best score of the rest of an alignment that has consumed a symbols of s
\* and p symbols of t and whose previous move is prev: stop when t is used up
\* (what is left of s is free), clip what is left of t, or make one more move.
RECURSIVE Walk(_, _, _)
Walk(a, p, prev) ==
    MaxOf(  (IF p = Len(t) THEN {0} ELSE {sc})
       \cup (IF a < Len(s) /\ p < Len(t)
             THEN {(IF s[a + 1] = t[p + 1] THEN scoring.match_score
                                           ELSE scoring.mismatch_score)
                   + Walk(a + 1, p + 1, "M")}
             ELSE {})
       \cup (IF a < Len(s) THEN {GapStep("I", prev) + Walk(a + 1, p, "I")} ELSE {})
       \cup (IF p < Len(t) THEN {GapStep("D", prev) + Walk(a, p + 1, "D")} ELSE {}))

\* The best semi-global score by definition: any start a in s, any clipped
\* prefix t[0..p), then the best walk from there.
ReferenceScore ==
    MaxOf({(IF p > 0 THEN sc ELSE 0) + Walk(a, p, "start") :
             a \in 0..Len(s), p \in 0..Len(t)})

\* The score of a list of moves: each maximal run of k INSERTs or of k DELETEs
\* costs gap_init + gap_unit * k.
RECURSIVE Rescore(_, _)
Rescore(P, k) ==
    IF k > Len(P) THEN 0
    ELSE Rescore(P, k + 1) +
         CASE P[k] = "MATCH" -> scoring.match_score
           [] P[k] = "SUBS" -> scoring.mismatch_score
           [] P[k] \in {"INSERT", "DELETE"} ->
                IF k > 1 /\ P[k - 1] = P[k] THEN gu ELSE gi + gu
           [] P[k] \in {"PREFIX_CLIP", "SUFFIX_CLIP"} -> sc
           [] OTHER -> 0

ConsumesQuery == {"MATCH", "SUBS", "DELETE"}

IsReferenceMove == {"MATCH", "SUBS", "INSERT"}

IsClip(mv) == mv \in {"PREFIX_CLIP", "SUFFIX_CLIP"}

C1_Policy == gi <= 0 /\ gu < 0 /\ sc < 0

(***************************************************************************)
(* C1: for non-empty s and t and a policy with gap_init <= 0, gap_unit < 0 *)
(* and soft_clip < 0, the score compute returns is the maximum score of a  *)
(* semi-global alignment as defined independently of the matrices: any     *)
(* interval of s, an optional clipped prefix and suffix of t at soft_clip  *)
(* each, affine gap runs in between.                                       *)
(***************************************************************************)
C1_ScoreIsOptimal ==
    (Returned /\ NonEmpty /\ C1_Policy) => score = ReferenceScore

\* A returned alignment that starts inside s after a clipped prefix.
C1_Witness ==
    /\ Returned /\ NonEmpty /\ C1_Policy
    /\ s_range[1] > 0
    /\ prefix_clip_length > 0
    /\ Len(moves) >= 2

(***************************************************************************)
(* C2 (amended): for non-empty s and t the returned score is               *)
(* Score[s_range[1]][|t|], and for a policy with gap_init <= 0 it is also  *)
(* the score of the returned moves re-scored move by move.                 *)
(***************************************************************************)
C2_ScoreConsistent ==
    (Returned /\ NonEmpty) =>
        /\ score = S[s_range[2]][Len(t)].score
        /\ gi <= 0 => score = Rescore(moves, 1)

\* A returned path with a gap run of two or more and a matched pair.
C2_Witness ==
    /\ Returned /\ NonEmpty /\ gi <= 0
    /\ \E k \in 1..(Len(moves) - 1) :
          moves[k] = moves[k + 1] /\ moves[k] \in {"INSERT", "DELETE"}
    /\ \E k \in 1..Len(moves) : moves[k] \in {"MATCH", "SUBS"}
    /\ score = Rescore(moves, 1)

\* C2 as stated: the re-scored moves give the returned score under every policy.
C2_AsStated ==
    (Returned /\ NonEmpty) =>
        /\ score = S[s_range[2]][Len(t)].score
        /\ score = Rescore(moves, 1)

(***************************************************************************)
(* C3: for non-empty s and t the result has t_range = [0, |t|) and the     *)
(* path accounts for the whole query: the clipped prefix, the MATCH, SUBS  *)
(* and DELETE moves and the clipped suffix add up to |t|; the suffix clip  *)
(* length is positive exactly when the last move is SUFFIX_CLIP, the       *)
(* prefix clip length exactly when the first move is PREFIX_CLIP.          *)
(***************************************************************************)
C3_QueryCoverage ==
    (Returned /\ NonEmpty) =>
        /\ t_range = <<0, Len(t)>>
        /\ Len(moves) > 0
        /\ prefix_clip_length + CountMoves(moves, ConsumesQuery) + suffix_clip_length
              = Len(t)
        /\ suffix_clip_length > 0 <=> moves[Len(moves)] = "SUFFIX_CLIP"
        /\ prefix_clip_length > 0 <=> moves[1] = "PREFIX_CLIP"

\* A returned path with a clipped prefix, aligned symbols and a clipped suffix.
C3_Witness ==
    /\ Returned /\ NonEmpty
    /\ prefix_clip_length > 0
    /\ suffix_clip_length > 0
    /\ CountMoves(moves, ConsumesQuery) > 0

(***************************************************************************)
(* C4: for non-empty s and t the returned s_range is an interval of s,     *)
(* 0 <= s_range[0] <= s_range[1] <= |s|, as long as the path has MATCH,    *)
(* SUBS and INSERT moves; the traceback's row cursor never goes below 0    *)
(* and stops at s_range[0].                                                *)
(***************************************************************************)
C4_RangeArithmetic ==
    NonEmpty =>
        /\ pc # "panic"
        /\ pc \in {"trace", "range", "done"} => i >= 0
        /\ Returned =>
              /\ 0 <= s_range[1]
              /\ s_range[1] <= s_range[2]
              /\ s_range[2] <= Len(s)
              /\ s_range[2] - s_range[1] = CountMoves(moves, IsReferenceMove)
              /\ i = s_range[1]

\* A returned alignment that starts and ends strictly inside s, with an INSERT.
C4_Witness ==
    /\ Returned /\ NonEmpty
    /\ 0 < s_range[1]
    /\ s_range[2] < Len(s)
    /\ \E k \in 1..Len(moves) : moves[k] = "INSERT"
Min2(a, b) == IF a <= b THEN a ELSE b

C5_Policy ==
    /\ gi <= 0
    /\ gu <= 0
    /\ sc < gi + gu * Len(t) + Len(t) * Min2(scoring.mismatch_score, 0)

(***************************************************************************)
(* C5: for non-empty s and t and a policy with gap_init <= 0 and           *)
(* gap_unit <= 0 whose soft_clip is below                                  *)
(* gap_init + gap_unit*|t| + |t|*min(mismatch, 0), no PREFIX_CLIP and no   *)
(* SUFFIX_CLIP is in the returned moves and both clip lengths are 0.       *)
(***************************************************************************)
C5_NoClipDegeneration ==
    (Returned /\ NonEmpty /\ C5_Policy) =>
        /\ \A k \in 1..Len(moves) : ~IsClip(moves[k])
        /\ prefix_clip_length = 0
        /\ suffix_clip_length = 0

\* A returned path under such a policy that pays for a deletion and a
\* substitution rather than clip.
C5_Witness ==
    /\ Returned /\ NonEmpty /\ C5_Policy
    /\ \E k \in 1..Len(moves) : moves[k] = "DELETE"
    /\ \E k \in 1..Len(moves) : moves[k] \in {"MATCH", "SUBS"}
    /\ \A k \in 1..Len(moves) : ~IsClip(moves[k])

SuffixClipScenario == s = SuffixClipS /\ t = SuffixClipT /\ scoring = ClipPolicy

(***************************************************************************)
(* C6: compute("CGTTTT", "GAAAA", {gap_init -5, gap_unit -1, match 2,      *)
(* mismatch -2, soft_clip -5}) returns moves = [MATCH, SUFFIX_CLIP].       *)
(***************************************************************************)
C6_SuffixClipScenario ==
    (Returned /\ SuffixClipScenario) => moves = <<"MATCH", "SUFFIX_CLIP">>

\* The scenario's call has returned: the G of t on the G of s, four symbols clipped.
C6_Witness ==
    /\ Returned /\ SuffixClipScenario
    /\ s_range = <<1, 2>>
    /\ suffix_clip_length = 4

(***************************************************************************)
(* C7: a call of compute with an empty s or an empty t aborts: it never    *)
(* returns an alignment result.                                            *)
(***************************************************************************)
C7_EmptyInputAborts == (Len(s) = 0 \/ Len(t) = 0) => ~Returned

(***************************************************************************)
(* C8: for non-empty s and t and every policy, SUFFIX_CLIP is only the     *)
(* traceback's first state: no MATCH, SUBS, INSERT or DELETE step reads    *)
(* SUFFIX_CLIP as its predecessor move, so SUFFIX_CLIP is at most the      *)
(* first move pushed, and at most the last of the returned moves.          *)
(***************************************************************************)
C8_SuffixClipOnlyFirst ==
    NonEmpty =>
        /\ (pc = "trace" /\ last \in {"MATCH", "SUBS", "INSERT", "DELETE"})
              => NextMove # "SUFFIX_CLIP"
        /\ pc \in {"trace", "range"} =>
              \A k \in 2..Len(moves) : moves[k] # "SUFFIX_CLIP"
        /\ Returned =>
              \A k \in 1..(Len(moves) - 1) : moves[k] # "SUFFIX_CLIP"

\* The traceback is at an INSERT step in the last column, about to read an
\* Insert cell there, while an Insert cell of that column is tagged SUFFIX_CLIP.
C8_Witness ==
    /\ NonEmpty
    /\ pc = "trace"
    /\ last = "INSERT"
    /\ j = Len(t)
    /\ \E k \in 1..Len(s) : I[k][Len(t)].mov = "SUFFIX_CLIP"

\* Cell (ii, jj) has been filled.
Filled(ii, jj) ==
    /\ ii \in 1..Len(s)
    /\ jj \in 1..Len(t)
    /\ pc # "init"
    /\ pc = "fill" => (ii < i \/ (ii = i /\ jj < j))

InsertTie(ii, jj) ==
    I[ii - 1][jj].score + gu = S[ii - 1][jj].score + gi + gu

DeleteTie(ii, jj) ==
    D[ii][jj - 1].score + gu = S[ii][jj - 1].score + gi + gu

\* The four candidates of Score[ii][jj].
Candidates(ii, jj) ==
    {Cell(I[ii][jj].score, "INSERT"), Cell(D[ii][jj].score, "DELETE"),
     Cell(M[ii][jj].score, IF s[ii] = t[jj] THEN "MATCH" ELSE "SUBS"),
     Cell(sc, "PREFIX_CLIP")}

\* The candidate of greatest score, and among those of the latest move.
LatestBest(ii, jj) ==
    CHOOSE x \in Candidates(ii, jj) :
        \A y \in Candidates(ii, jj) :
            \/ y.score < x.score
            \/ y.score = x.score /\ MoveRank(y.mov) <= MoveRank(x.mov)

(***************************************************************************)
(* C9 (amended): on equal scores a cell keeps the candidate whose move is  *)
(* later in the order MATCH, SUBS, INSERT, DELETE, PREFIX_CLIP,            *)
(* SUFFIX_CLIP, NONE.  So on a tie Insert[i][j] keeps the stay-open        *)
(* candidate tagged INSERT only when Score[i-1][j] is tagged MATCH, SUBS   *)
(* or INSERT and otherwise takes the tag of Score[i-1][j]; Delete[i][j]    *)
(* keeps DELETE only when Score[i][j-1] is tagged MATCH, SUBS, INSERT or   *)
(* DELETE; Score[i][j] prefers PREFIX_CLIP over DELETE over INSERT over    *)
(* MATCH/SUBS; and in the last column a SUFFIX_CLIP candidate is replaced  *)
(* only by a strictly greater score.                                       *)
(***************************************************************************)
C9_TieBreakByMoveOrder ==
    \A ii \in 1..Len(s), jj \in 1..Len(t) :
        Filled(ii, jj) =>
            /\ InsertTie(ii, jj) =>
                  I[ii][jj].mov =
                      IF S[ii - 1][jj].mov \in {"MATCH", "SUBS", "INSERT"}
                      THEN "INSERT" ELSE S[ii - 1][jj].mov
            /\ DeleteTie(ii, jj) =>
                  D[ii][jj].mov =
                      IF S[ii][jj - 1].mov \in {"MATCH", "SUBS", "INSERT", "DELETE"}
                      THEN "DELETE" ELSE S[ii][jj - 1].mov
            /\ jj < Len(t) => S[ii][jj] = LatestBest(ii, jj)
            /\ jj = Len(t) =>
                  \/ /\ S[ii][jj] = LatestBest(ii, jj)
                     /\ \A k \in 1..(Len(t) - 1) : S[ii][jj].score > S[ii][k].score + sc
                  \/ /\ S[ii][jj].mov = "SUFFIX_CLIP"
                     /\ S[ii][jj].score >= LatestBest(ii, jj).score

\* The fill is over with: an Insert tie that took the tag of a DELETE-tagged
\* Score cell, a Delete tie that kept DELETE over a MATCH-, SUBS- or
\* INSERT-tagged one, and a Score cell where PREFIX_CLIP won an equal score.
C9_Witness ==
    /\ pc = "done"
    /\ \E ii \in 1..Len(s), jj \in 1..Len(t) :
          InsertTie(ii, jj) /\ S[ii - 1][jj].mov = "DELETE" /\ I[ii][jj].mov = "DELETE"
    /\ \E ii \in 1..Len(s), jj \in 1..Len(t) :
          DeleteTie(ii, jj) /\ S[ii][jj - 1].mov \in {"MATCH", "SUBS", "INSERT"}
              /\ D[ii][jj].mov = "DELETE"
    /\ \E ii \in 1..Len(s), jj \in 1..(Len(t) - 1) :
          /\ S[ii][jj].mov = "PREFIX_CLIP"
          /\ \E y \in Candidates(ii, jj) : y.mov # "PREFIX_CLIP" /\ y.score = sc

\* C9 as stated: a tie keeps the first operand of Insert and of Delete whatever
\* tags the Score cell, and Score prefers INSERT/DELETE over MATCH/SUBS over
\* PREFIX_CLIP on equal scores.
C9_AsStated ==
    \A ii \in 1..Len(s), jj \in 1..Len(t) :
        Filled(ii, jj) =>
            /\ InsertTie(ii, jj) => I[ii][jj].mov = "INSERT"
            /\ DeleteTie(ii, jj) => D[ii][jj].mov = "DELETE"
            /\ (jj < Len(t) /\ S[ii][jj].mov = "PREFIX_CLIP") =>
                  \A y \in Candidates(ii, jj) : y.mov # "PREFIX_CLIP" => y.score < sc
            /\ (jj < Len(t) /\ S[ii][jj].mov \in {"MATCH", "SUBS"}) =>
                  \A y \in Candidates(ii, jj) :
                      y.mov \in {"INSERT", "DELETE"} => y.score < S[ii][jj].score

(***************************************************************************)
(* C10 (amended): after the matrices are initialised, for every row i in   *)
(* 1..|s|, Insert[i][0].score = gap_init + gap_unit, whatever i is, and    *)
(* Score[i][0] is 0 with move NONE.                                        *)
(***************************************************************************)
C10_ColumnZero ==
    pc # "init" =>
        \A ii \in 1..Len(s) :
            /\ I[ii][0] = Cell(gi + gu, "NONE")
            /\ S[ii][0] = Cell(0, "NONE")

\* The matrices of a reference of two or more symbols have just been initialised.
C10_Witness ==
    /\ pc = "fill" /\ i = 1 /\ j = 1
    /\ Len(s) >= 2
    /\ Len(t) >= 1
    /\ gi + gu # 0
    /\ I[2][0].score = gi + gu
    /\ S[2][0].score = 0

\* C10 as stated: column 0 holds the cost of a gap run of i symbols.
C10_AsStated ==
    (pc # "init" /\ NonEmpty) =>
        \A ii \in 1..Len(s) :
            /\ I[ii][0].score = gi + gu * ii
            /\ S[ii][0] = Cell(I[ii][0].score, "NONE")

\* The states of the traceback automaton at which the loop breaks at once.
TerminalMoves == {"PREFIX_CLIP", "NONE"}

(***************************************************************************)
(* C11: for non-empty s and t the traceback never aborts and never pushes  *)
(* more than |s| + |t| + 1 moves, one per iteration of the loop, so the    *)
(* loop always has its next iteration to run and breaks within             *)
(* |s| + |t| + 1 of them.  The cursor stays inside the matrices; the       *)
(* iteration of a non-terminal state strictly decreases i + j and leaves   *)
(* both i and j at 0 or above; a SUFFIX_CLIP iteration subtracts the clip  *)
(* length recorded for the row, which is 1 or more; and the loop breaks    *)
(* only on PREFIX_CLIP or on a NONE read at row 0 or column 0.             *)
(***************************************************************************)
C11_TracebackTerminates ==
    NonEmpty =>
        /\ pc # "panic"
        /\ pc \in {"trace", "range", "done"} => Len(moves) <= Len(s) + Len(t) + 1
        /\ pc = "trace" =>
              /\ ENABLED TraceStep
              /\ i \in 0..Len(s)
              /\ j \in 0..Len(t)
              /\ last # "NONE"
              /\ last \notin TerminalMoves =>
                    /\ NextI + NextJ < i + j
                    /\ NextI >= 0
                    /\ NextJ >= 0
                    /\ NextMove = "NONE" => (NextI = 0 \/ NextJ = 0)
              /\ last = "SUFFIX_CLIP" =>
                    /\ suffix_clip_length = c[i]
                    /\ suffix_clip_length >= 1

\* A traceback that started on SUFFIX_CLIP, jumped over the clipped columns,
\* walked through the matrices and is about to break on PREFIX_CLIP.
C11_Witness ==
    /\ NonEmpty
    /\ pc = "trace"
    /\ Len(moves) >= 3
    /\ moves[1] = "SUFFIX_CLIP"
    /\ suffix_clip_length >= 1
    /\ last = "PREFIX_CLIP"
    /\ j >= 1

====
